---- MODULE Spec2Model ----
(***************************************************************************)
(* KrushiAI crop recommendation service (KrushiAI-Crop-Recommendation/     *)
(* app.py): the start-up state (model, crop_info, label_encoder,           *)
(* int_to_class), the label resolver to_crop_name / map_class_label, the   *)
(* ranking top_k_predictions and the POST /predict handler.                *)
(*                                                                         *)
(* Python values are records [t, i, s, items]: t is the type, i the        *)
(* integer payload, s the text (a sequence of character codes, so that     *)
(* lower(), str() and string comparison are computed, not assumed) and     *)
(* items the elements of a list or array.  Probabilities are counted in    *)
(* tenths.  A call's outcome is [exc, val]: exc = "None" when it returned. *)
(***************************************************************************)
EXTENDS Integers, Sequences, FiniteSets

VARIABLES
    model,                \* the unpickled classifier (app.py:26-27)
    crop_info,            \* the catalog, in file order: <<key, text>> pairs
    label_encoder,        \* None or the unpickled LabelEncoder.pkl
    alphabetical_classes, \* sorted(crop_info.keys())
    int_to_class,         \* index -> class name
    call,                 \* the last operation: its inputs, locals and result
    first,                \* a to_crop_name call whose result the caller kept
    threads,              \* the /predict requests in progress, one per worker thread
    users,                \* agrisens.db, table users: the committed rows in rowid order
    farms,                \* agrisens.db, table farms: the committed rows in rowid order
    clients,              \* the calls into lib/database.py in progress, one per caller
    sessions,             \* st.session_state of each browser session of the dashboard
    disease               \* the disease recognition page: temp files, analysis, pagination

vars == <<model, crop_info, label_encoder, alphabetical_classes, int_to_class, call,
          first, threads, users, farms, clients, sessions, disease>>

\* the state of the crop recommendation service, and the state of the dashboard
crop_vars == <<model, crop_info, label_encoder, alphabetical_classes, int_to_class, call,
               first, threads>>
site_vars == <<users, farms, clients, sessions, disease>>

----------------------------------------------------------------------------
(* Bounds of the model *)

MaxInt == 3          \* integer predictions range over -1..MaxInt, and LargeIndex
LargeIndex == 21     \* a two-digit class index
MaxK == 3            \* k of a direct top_k_predictions call ranges over 1..MaxK
MaxModelClasses == 2 \* a model with encoded classes has 1..MaxModelClasses of them
MaxCatalog == 3      \* the catalog holds 0..MaxCatalog crops
MaxThreads == 2      \* worker threads serving /predict at the same time
MaxClients == 2      \* callers inside lib/database.py at the same time
MaxUsers == 3        \* add_user is called while the users table has fewer rows
MaxFarms == 2        \* update_farm_details is called while fewer farm rows exist or are pending
MaxSessions == 2     \* browser sessions of the dashboard
MaxDiseases == 13    \* entries of the disease database
MaxMissing == 1      \* a request body lacks 0..MaxMissing of the required fields

----------------------------------------------------------------------------
(* Text: sequences of character codes *)

S_banana == <<98, 97, 110, 97, 110, 97>>
S_rice   == <<114, 105, 99, 101>>
S_wheat  == <<119, 104, 101, 97, 116>>
S_maize  == <<109, 97, 105, 122, 101>>
S_jute   == <<106, 117, 116, 101>>
S_Rice   == <<82, 105, 99, 101>>
S_RICE   == <<82, 73, 67, 69>>
S_Wheat  == <<87, 104, 101, 97, 116>>
S_three  == <<51>>
S_one    == <<49>>
S_padded == <<32, 114, 105, 99, 101, 32>>   \* ' rice '
S_None   == <<78, 111, 110, 101>>
S_True   == <<84, 114, 117, 101>>
S_False  == <<70, 97, 108, 115, 101>>

NO_INFO == "No information available for this crop."

Min(a, b) == IF a < b THEN a ELSE b
Max(a, b) == IF a > b THEN a ELSE b

\* str.lower() on ASCII text
Lower(s) == [n \in 1..Len(s) |-> IF s[n] \in 65..90 THEN s[n] + 32 ELSE s[n]]

\* a < b for str: code-point lexicographic order
StrLess(a, b) ==
    \E n \in 1..(Min(Len(a), Len(b)) + 1) :
        /\ \A m \in 1..(n - 1) : a[m] = b[m]
        /\ \/ n > Len(a) /\ n <= Len(b)
           \/ n <= Len(a) /\ n <= Len(b) /\ a[n] < b[n]

RECURSIVE Digits(_)
Digits(n) == IF n < 10 THEN <<48 + n>> ELSE Digits(n \div 10) \o <<48 + (n % 10)>>

\* str(i) for an int
StrOfInt(i) == IF i < 0 THEN <<45>> \o Digits(0 - i) ELSE Digits(i)

\* str(x) for a float held in tenths: 20 is 2.0, -5 is -0.5
StrOfFloat(x) ==
    LET a == IF x < 0 THEN 0 - x ELSE x
    IN  (IF x < 0 THEN <<45>> ELSE <<>>) \o Digits(a \div 10) \o <<46>> \o Digits(a % 10)

RECURSIVE Join(_, _)
Join(parts, sep) ==
    IF Len(parts) = 0 THEN <<>>
    ELSE IF Len(parts) = 1 THEN parts[1]
    ELSE parts[1] \o sep \o Join(Tail(parts), sep)

RECURSIVE Spaces(_)
Spaces(n) == IF n <= 0 THEN <<>> ELSE <<32>> \o Spaces(n - 1)

----------------------------------------------------------------------------
(* Python values *)

PyVal(t, i, s, items) == [t |-> t, i |-> i, s |-> s, items |-> items]
PyInt(i)      == PyVal("int", i, <<>>, <<>>)        \* int and np.integer
PyBool(b)     == PyVal("bool", IF b THEN 1 ELSE 0, <<>>, <<>>)
PyStr(s)      == PyVal("str", 0, s, <<>>)           \* str and np.str_
PyFloat(x)    == PyVal("float", x, <<>>, <<>>)
PyNone        == PyVal("NoneType", 0, <<>>, <<>>)
PyList(items) == PyVal("list", 0, <<>>, items)
PyArray(items) == PyVal("ndarray", 0, <<>>, items)   \* a 1-d np.ndarray
PyArray0d(x)  == PyVal("ndarray0d", 0, <<>>, <<x>>)   \* a 0-d np.ndarray: np.array(x)

Returned(v) == [exc |-> "None", val |-> v]
Raised(e)   == [exc |-> e, val |-> PyNone]

\* isinstance(v, (np.integer, int)): bool is a subclass of int
IsIntInstance(v) == v.t \in {"int", "bool"}
\* isinstance(v, (np.str_, str))
IsStrInstance(v) == v.t = "str"
\* isinstance(v, (np.ndarray, list))
IsContainer(v) == v.t \in {"list", "ndarray", "ndarray0d"}
\* len(v) of a list or array: a 0-d array is unsized
PyLen(v) == IF v.t = "ndarray0d" THEN Raised("TypeError") ELSE Returned(PyInt(Len(v.items)))

RECURSIVE PyStrOf(_)
RECURSIVE PyRepr(_)
\* repr(v): text is quoted
PyRepr(v) == IF v.t = "str" THEN <<39>> \o v.s \o <<39>> ELSE PyStrOf(v)

\* the text of an array's elements: integers are right-justified to a common width
ArrayItemText(v, width) ==
    IF v.t = "int"
    THEN Spaces(width - Len(StrOfInt(v.i))) \o StrOfInt(v.i)
    ELSE PyRepr(v)

RECURSIVE MaxWidth(_)
MaxWidth(items) ==
    IF Len(items) = 0 THEN 0
    ELSE Max(IF items[1].t = "int" THEN Len(StrOfInt(items[1].i)) ELSE 0,
             MaxWidth(Tail(items)))

\* str(v)
PyStrOf(v) ==
    CASE v.t = "str"      -> v.s
      [] v.t = "int"      -> StrOfInt(v.i)
      [] v.t = "bool"     -> IF v.i = 1 THEN S_True ELSE S_False
      [] v.t = "float"    -> StrOfFloat(v.i)
      [] v.t = "NoneType" -> S_None
      [] v.t = "list"     ->
            <<91>> \o Join([n \in 1..Len(v.items) |-> PyRepr(v.items[n])], <<44, 32>>) \o <<93>>
      [] v.t = "ndarray0d" -> PyStrOf(v.items[1])
      [] v.t = "ndarray"  ->
            <<91>> \o Join([n \in 1..Len(v.items) |->
                              ArrayItemText(v.items[n], MaxWidth(v.items))], <<32>>) \o <<93>>

----------------------------------------------------------------------------
(* Start-up: app.py:25-44 *)

CatalogKeys == {S_banana, S_rice, S_wheat}   \* keys are lowercase crop names

CatalogText(key) ==
    CASE key = S_banana -> "Banana needs a warm humid climate."
      [] key = S_rice   -> "Rice is a staple cereal grown in flooded fields."
      [] key = S_wheat  -> "Wheat is a rabi crop of cool dry seasons."
      [] OTHER          -> "A crop."

IsInjective(f) == \A a, b \in DOMAIN f : f[a] = f[b] => a = b

\* crop_info.json: an object whose keys come in any order
CatalogFiles ==
    { [n \in 1..Len(ks) |-> [key |-> ks[n], info |-> CatalogText(ks[n])]] :
        ks \in { q \in UNION { [1..n -> CatalogKeys] : n \in 0..MaxCatalog } : IsInjective(q) } }

\* list(d.keys()): insertion order
DictKeys(d) == [n \in 1..Len(d) |-> d[n].key]

\* d.get(key): the default left out, so a miss gives None (JSON null)
DictGet_NoDefault(d, key, default) ==
    IF \E n \in 1..Len(d) : d[n].key = key
    THEN d[CHOOSE n \in 1..Len(d) : d[n].key = key].info
    ELSE "null"

\* d.get(key, default)
DictGet(d, key, default) ==
    IF \E n \in 1..Len(d) : d[n].key = key
    THEN d[CHOOSE n \in 1..Len(d) : d[n].key = key].info
    ELSE default

\* sorted(xs) for a list of str: a stable insertion sort on <
RECURSIVE InsertSorted(_, _)
InsertSorted(x, sorted) ==
    IF Len(sorted) = 0 THEN <<x>>
    ELSE IF StrLess(x, sorted[1]) THEN <<x>> \o sorted
    ELSE <<sorted[1]>> \o InsertSorted(x, Tail(sorted))

RECURSIVE SortedFrom(_, _)
SortedFrom(xs, acc) ==
    IF Len(xs) = 0 THEN acc ELSE SortedFrom(Tail(xs), InsertSorted(xs[1], acc))

PySorted(xs) == SortedFrom(xs, <<>>)

\* list(crop_info.keys()) without the sort
BuildAlphabeticalClasses_Unsorted(info) == DictKeys(info)

\* alphabetical_classes = sorted(crop_info.keys())
BuildAlphabeticalClasses(info) == PySorted(DictKeys(info))

\* the mapping numbered from 1: enumerate(classes, 1)
BuildIntToClass_FromOne(classes) == [i \in 1..Len(classes) |-> classes[i]]

\* int_to_class = {i: cls for i, cls in enumerate(classes)}
BuildIntToClass(classes) == [i \in 0..(Len(classes) - 1) |-> classes[i + 1]]

\* The label encoder: None, an object that is no encoder, or a LabelEncoder
NoEncoder == [kind |-> "None", classes |-> <<>>]
BrokenEncoder == [kind |-> "broken", classes |-> <<>>]
LabelEncoder(classes) == [kind |-> "LabelEncoder", classes |-> classes]

\* LabelEncoder.pkl on disk: absent, unreadable, or a pickled object
EncoderFiles ==
    { [exists |-> FALSE, readable |-> FALSE, obj |-> NoEncoder],
      [exists |-> TRUE,  readable |-> FALSE, obj |-> NoEncoder],
      [exists |-> TRUE,  readable |-> TRUE,  obj |-> BrokenEncoder],
      [exists |-> TRUE,  readable |-> TRUE,
       obj |-> LabelEncoder(<<PyStr(S_Rice), PyStr(S_Wheat)>>)],
      [exists |-> TRUE,  readable |-> TRUE,
       obj |-> LabelEncoder(<<PyInt(10), PyInt(20), PyInt(30)>>)] }

\* app.py:34-40
LoadLabelEncoder(file) ==
    IF file.exists
    THEN IF file.readable THEN file.obj ELSE NoEncoder
    ELSE NoEncoder

\* label_encoder.inverse_transform([y])[0]
InverseTransform(enc, y) ==
    IF enc.kind # "LabelEncoder" THEN Raised("AttributeError")
    ELSE IF y \in 0..(Len(enc.classes) - 1) THEN Returned(enc.classes[y + 1])
    ELSE Raised("ValueError")

\* int_to_class.get(key): the default left out, so a miss gives None
IntToClassGet_NoDefault(key, default) ==
    IF key \in DOMAIN int_to_class THEN PyStr(int_to_class[key]) ELSE PyNone

\* int_to_class.get(key, default)
IntToClassGet(key, default) ==
    IF key \in DOMAIN int_to_class THEN PyStr(int_to_class[key]) ELSE default

----------------------------------------------------------------------------
(* The resolver: app.py:46-84 *)

\* to_crop_name trying the alphabetical mapping before the encoder
to_crop_name_FallbackFirst(pred_val) ==
    LET unwrapped == IF IsContainer(pred_val) /\ PyLen(pred_val).val.i = 1
                     THEN pred_val.items[1] ELSE pred_val
        decoded == IF label_encoder.kind # "None"
                   THEN InverseTransform(label_encoder, unwrapped.i)
                   ELSE Raised("skipped")
    IN  IF IsContainer(pred_val) /\ PyLen(pred_val).exc # "None"
        THEN Raised(PyLen(pred_val).exc)
        ELSE IF IsIntInstance(unwrapped)
        THEN IF unwrapped.i \in DOMAIN int_to_class
             THEN Returned(PyStr(int_to_class[unwrapped.i]))
             ELSE IF label_encoder.kind # "None" /\ decoded.exc = "None"
             THEN Returned(PyStr(PyStrOf(decoded.val)))
             ELSE Returned(PyStr(PyStrOf(unwrapped)))
        ELSE Returned(PyStr(PyStrOf(unwrapped)))

\* to_crop_name folding a string label to lower case, as the catalog lookup
\* does
to_crop_name_Folds(pred_val) ==
    LET unwrapped == IF IsContainer(pred_val) /\ PyLen(pred_val).val.i = 1
                     THEN pred_val.items[1] ELSE pred_val
        decoded == IF label_encoder.kind # "None"
                   THEN InverseTransform(label_encoder, unwrapped.i)
                   ELSE Raised("skipped")
    IN  IF IsContainer(pred_val) /\ PyLen(pred_val).exc # "None"
        THEN Raised(PyLen(pred_val).exc)
        ELSE IF IsIntInstance(unwrapped)
        THEN IF label_encoder.kind # "None" /\ decoded.exc = "None"
             THEN Returned(PyStr(PyStrOf(decoded.val)))
             ELSE Returned(PyStr(PyStrOf(
                      IntToClassGet(unwrapped.i, PyStr(PyStrOf(unwrapped))))))
        ELSE IF IsStrInstance(unwrapped)
        THEN Returned(PyStr(Lower(PyStrOf(unwrapped))))
        ELSE Returned(PyStr(PyStrOf(unwrapped)))

\* to_crop_name without the unwrapping of a length-1 container
to_crop_name_NoUnwrap(pred_val) ==
    LET decoded == IF label_encoder.kind # "None"
                   THEN InverseTransform(label_encoder, pred_val.i)
                   ELSE Raised("skipped")
    IN  IF IsIntInstance(pred_val)
        THEN IF label_encoder.kind # "None" /\ decoded.exc = "None"
             THEN Returned(PyStr(PyStrOf(decoded.val)))
             ELSE Returned(PyStr(PyStrOf(
                      IntToClassGet(pred_val.i, PyStr(PyStrOf(pred_val))))))
        ELSE Returned(PyStr(PyStrOf(pred_val)))

to_crop_name(pred_val) ==
    LET unwrapped == IF IsContainer(pred_val) /\ PyLen(pred_val).val.i = 1
                     THEN pred_val.items[1] ELSE pred_val
        decoded == IF label_encoder.kind # "None"
                   THEN InverseTransform(label_encoder, unwrapped.i)
                   ELSE Raised("skipped")
    IN  IF IsContainer(pred_val) /\ PyLen(pred_val).exc # "None"
        THEN Raised(PyLen(pred_val).exc)
        ELSE IF IsIntInstance(unwrapped)
        THEN IF label_encoder.kind # "None" /\ decoded.exc = "None"
             THEN Returned(PyStr(PyStrOf(decoded.val)))
             ELSE Returned(PyStr(PyStrOf(
                      IntToClassGet(unwrapped.i, PyStr(PyStrOf(unwrapped))))))
        ELSE IF IsStrInstance(unwrapped)
        THEN Returned(PyStr(PyStrOf(unwrapped)))
        ELSE Returned(PyStr(PyStrOf(unwrapped)))

\* map_class_label without the try/except around the encoder
map_class_label_NoExcept(cls_val) ==
    LET decoded == InverseTransform(label_encoder, cls_val.i)
    IN  IF IsStrInstance(cls_val)
        THEN Returned(PyStr(PyStrOf(cls_val)))
        ELSE IF IsIntInstance(cls_val)
        THEN IF label_encoder.kind = "None"
             THEN Returned(PyStr(PyStrOf(
                      IntToClassGet(cls_val.i, PyStr(PyStrOf(cls_val))))))
             ELSE IF decoded.exc = "None"
             THEN Returned(PyStr(PyStrOf(decoded.val)))
             ELSE Raised(decoded.exc)
        ELSE Returned(PyStr(PyStrOf(cls_val)))

\* map_class_label without the encoder: integers go straight to int_to_class
map_class_label_SkipsEncoder(cls_val) ==
    IF IsStrInstance(cls_val)
    THEN Returned(PyStr(PyStrOf(cls_val)))
    ELSE IF IsIntInstance(cls_val)
    THEN Returned(PyStr(PyStrOf(IntToClassGet(cls_val.i, PyStr(PyStrOf(cls_val))))))
    ELSE Returned(PyStr(PyStrOf(cls_val)))

map_class_label(cls_val) ==
    LET decoded == IF label_encoder.kind # "None"
                   THEN InverseTransform(label_encoder, cls_val.i)
                   ELSE Raised("skipped")
    IN  IF IsStrInstance(cls_val)
        THEN Returned(PyStr(PyStrOf(cls_val)))
        ELSE IF IsIntInstance(cls_val)
        THEN IF label_encoder.kind # "None" /\ decoded.exc = "None"
             THEN Returned(PyStr(PyStrOf(decoded.val)))
             ELSE Returned(PyStr(PyStrOf(
                      IntToClassGet(cls_val.i, PyStr(PyStrOf(cls_val))))))
        ELSE Returned(PyStr(PyStrOf(cls_val)))

\* Inputs of a direct call
IntInputs == (-1..MaxInt) \cup {LargeIndex}
Scalars ==
    { PyInt(i) : i \in IntInputs }
    \cup { PyStr(s) : s \in {S_rice, S_Rice, S_RICE, S_maize, S_three, S_one,
                              S_padded} }
    \cup { PyBool(TRUE), PyBool(FALSE), PyNone, PyFloat(20), PyFloat(-5) }
ListItems == { PyInt(1), PyInt(10), PyStr(S_rice) }
ArrayInts == { PyInt(1), PyInt(-1), PyInt(10) }
ArrayStrs == { PyStr(S_rice), PyStr(S_Rice) }
Containers ==
    { PyList(<<>>), PyArray(<<>>), PyList(<<PyList(<<PyInt(0)>>)>>),
      PyArray0d(PyInt(0)), PyArray0d(PyStr(S_rice)) }
    \cup { PyList(<<x>>) : x \in Scalars }
    \cup { PyList(<<x, y>>) : x \in ListItems, y \in ListItems }
    \cup { PyArray(<<x>>) : x \in { v \in Scalars : v.t \in {"int", "str"} } }
    \cup { PyArray(<<x, y>>) : x \in ArrayInts, y \in ArrayInts }
    \cup { PyArray(<<x, y>>) : x \in ArrayStrs, y \in ArrayStrs }
PredVals == Scalars \cup Containers

\* the inputs a caller repeats: one for each way through to_crop_name
RepeatInputs ==
    { PyInt(0), PyInt(1), PyInt(LargeIndex), PyBool(TRUE), PyStr(S_Rice), PyFloat(20),
      PyList(<<PyInt(1)>>), PyList(<<>>), PyArray0d(PyInt(0)) }

\* the worker threads of the server, each serving one request at a time
Threads == 1..MaxThreads
Waiting == [pc |-> "waiting"]

Idle == [op |-> "none"]

\* to_crop_name with `global label_encoder` and an except branch that drops
\* an encoder that raised
CallToCropName_DropsEncoder(pred_val) ==
    /\ call = Idle
    /\ call' = [op |-> "to_crop_name", arg |-> pred_val, ret |-> to_crop_name(pred_val)]
    /\ label_encoder' =
          IF /\ ~(IsContainer(pred_val) /\ PyLen(pred_val).exc # "None")
             /\ LET unwrapped == IF IsContainer(pred_val) /\ PyLen(pred_val).val.i = 1
                                 THEN pred_val.items[1] ELSE pred_val
                IN  /\ IsIntInstance(unwrapped)
                    /\ label_encoder.kind # "None"
                    /\ InverseTransform(label_encoder, unwrapped.i).exc # "None"
          THEN NoEncoder
          ELSE label_encoder
    /\ UNCHANGED <<model, crop_info, alphabetical_classes, int_to_class, first, threads>>
    /\ UNCHANGED site_vars

CallToCropName(pred_val) ==
    /\ call = Idle
    /\ call' = [op |-> "to_crop_name", arg |-> pred_val, ret |-> to_crop_name(pred_val)]
    /\ UNCHANGED <<model, crop_info, label_encoder, alphabetical_classes, int_to_class,
                   first, threads>>
    /\ UNCHANGED site_vars

\* map_class_label with int_to_class.setdefault(...) in place of .get(...):
\* an index the mapping lacks is stored in it
CallMapClassLabel_SetDefault(cls_val) ==
    /\ call = Idle
    /\ call' = [op |-> "map_class_label", arg |-> cls_val, ret |-> map_class_label(cls_val)]
    /\ int_to_class' =
          IF /\ ~IsStrInstance(cls_val) /\ IsIntInstance(cls_val)
             /\ (label_encoder.kind = "None"
                 \/ InverseTransform(label_encoder, cls_val.i).exc # "None")
          THEN [i \in DOMAIN int_to_class \cup {cls_val.i} |->
                   IF i \in DOMAIN int_to_class THEN int_to_class[i] ELSE PyStrOf(cls_val)]
          ELSE int_to_class
    /\ UNCHANGED <<model, crop_info, label_encoder, alphabetical_classes, first, threads>>
    /\ UNCHANGED site_vars

CallMapClassLabel(cls_val) ==
    /\ call = Idle
    /\ call' = [op |-> "map_class_label", arg |-> cls_val, ret |-> map_class_label(cls_val)]
    /\ UNCHANGED <<model, crop_info, label_encoder, alphabetical_classes, int_to_class,
                   first, threads>>
    /\ UNCHANGED site_vars

----------------------------------------------------------------------------
(* The classifier *)

\* model.classes_: encoded integers 0..n-1, or crop names
IntClasses(n) == [m \in 1..n |-> PyInt(m - 1)]
\* a model with more classes than the three that /predict ranks
NameClasses == <<PyStr(S_rice), PyStr(S_maize), PyStr(S_jute), PyStr(S_wheat)>>
MixedCaseClasses == <<PyStr(S_Rice), PyStr(S_RICE)>>

Models ==
    { [predict_proba |-> TRUE, has_classes |-> TRUE, classes_ |-> IntClasses(n)] :
        n \in 1..MaxModelClasses }
    \cup { [predict_proba |-> TRUE, has_classes |-> TRUE, classes_ |-> cs] :
        cs \in {NameClasses, MixedCaseClasses} }
    \cup { [predict_proba |-> FALSE, has_classes |-> TRUE, classes_ |-> cs] :
        cs \in {IntClasses(2), MixedCaseClasses} }
    \cup { [predict_proba |-> p, has_classes |-> FALSE, classes_ |-> <<>>] : p \in BOOLEAN }

\* model.predict_proba(features)[0]: one probability per class, in tenths
RECURSIVE SumSeq(_)
SumSeq(s) == IF Len(s) = 0 THEN 0 ELSE s[1] + SumSeq(Tail(s))

\* the probabilities 0, 0.1, 0.2, 0.5, 0.7 and 1, in tenths; a vector sums to 1
ProbLevels == {0, 1, 2, 5, 7, 10}
ProbaTable == [n \in 1..Max(MaxModelClasses, 4) |->
                  { p \in [1..n -> ProbLevels] : SumSeq(p) = 10 }]
ProbaVectors(n) == ProbaTable[n]

\* np.argsort(probs): the indices in ascending order of probability; the
\* default sort is not stable, so equal probabilities come in any order
IndexOrders == [n \in 0..Max(MaxModelClasses, 4) |->
                   { perm \in [1..n -> 0..(n - 1)] : IsInjective(perm) }]
ArgsortOutcomes(probs) ==
    { perm \in IndexOrders[Len(probs)] :
        \A a \in 1..(Len(probs) - 1) : probs[perm[a] + 1] <= probs[perm[a + 1] + 1] }

\* xs[::-1]
Reversed(xs) == [n \in 1..Len(xs) |-> xs[Len(xs) + 1 - n]]

\* the slice [:k] left out
Prefix_Whole(xs, k) == xs

\* xs[:k] for k >= 0
Prefix(xs, k) == SubSeq(xs, 1, Min(k, Len(xs)))

----------------------------------------------------------------------------
(* Ranking: app.py:86-102 *)

\* np.argsort(probs)[:k]: the reversal left out
TopIndices_Ascending(argsorted, k) == Prefix(argsorted, k)

\* np.argsort(probs)[::-1][:k]
TopIndices(argsorted, k) == Prefix(Reversed(argsorted), k)

\* crop_info.get(label, ...): the label looked up as it is
InfoFor_NoLower(label) == DictGet(crop_info, label, NO_INFO)

\* crop_info.get(label.lower(), 'No information available for this crop.')
InfoFor(label) == DictGet(crop_info, Lower(label), NO_INFO)

TopKNone(calls) ==
    [exc |-> "None", is_none |-> TRUE, results |-> <<>>, indices |-> <<>>, calls |-> calls]

\* top_k_predictions without the hasattr checks
top_k_predictions_NoCapabilityCheck(proba, argsorted, k) ==
    IF ~model.predict_proba \/ ~model.has_classes
    THEN [exc |-> "AttributeError", is_none |-> FALSE, results |-> <<>>,
          indices |-> <<>>, calls |-> <<>>]
    ELSE
      LET classes == model.classes_
          indices == TopIndices(argsorted, k)
          labels  == [n \in 1..Len(indices) |-> map_class_label(classes[indices[n] + 1])]
      IN  [exc |-> "None", is_none |-> FALSE,
           results |-> [n \in 1..Len(indices) |->
               [label |-> labels[n].val.s,
                probability |-> proba[indices[n] + 1],
                info |-> InfoFor(labels[n].val.s)]],
           indices |-> indices,
           calls |-> <<"predict_proba">>]

\* proba is what model.predict_proba returned, argsorted what np.argsort returned
top_k_predictions(proba, argsorted, k) ==
    IF ~model.predict_proba THEN TopKNone(<<>>)
    ELSE IF ~model.has_classes THEN TopKNone(<<"predict_proba">>)
    ELSE
      LET classes == model.classes_
          indices == TopIndices(argsorted, k)
          labels  == [n \in 1..Len(indices) |-> map_class_label(classes[indices[n] + 1])]
          failed  == { n \in 1..Len(indices) : labels[n].exc # "None" }
      IN  IF failed # {}
          THEN [exc |-> labels[CHOOSE n \in failed : \A m \in failed : n <= m].exc,
                is_none |-> FALSE, results |-> <<>>, indices |-> indices,
                calls |-> <<"predict_proba">>]
          ELSE [exc |-> "None", is_none |-> FALSE,
                results |-> [n \in 1..Len(indices) |->
                    [label |-> labels[n].val.s,
                     probability |-> proba[indices[n] + 1],
                     info |-> InfoFor(labels[n].val.s)]],
                indices |-> indices,
                calls |-> <<"predict_proba">>]

NoProba == <<>>

CallTopK(k) ==
    /\ call = Idle
    /\ \E proba \in (IF model.predict_proba /\ model.has_classes
                     THEN ProbaVectors(Len(model.classes_)) ELSE {NoProba}) :
         \E argsorted \in ArgsortOutcomes(proba) :
            call' = [op |-> "top_k_predictions", proba |-> proba, k |-> k,
                     ret |-> top_k_predictions(proba, argsorted, k)]
    /\ UNCHANGED <<model, crop_info, label_encoder, alphabetical_classes, int_to_class,
                   first, threads>>
    /\ UNCHANGED site_vars

----------------------------------------------------------------------------
(* POST /predict: app.py:120-158 *)

Required == <<"nitrogen", "phosphorus", "potassium", "temperature", "humidity", "ph", "rainfall">>
RequiredSet == { Required[n] : n \in 1..Len(Required) }

\* What request.get_json(silent=True) returns: None for a body that is no JSON,
\* or the decoded value.  A field of an object is absent, a number, a numeric
\* string, a text that is no number, or null.
NotJson(kind) == [json |-> kind, fields |-> [f \in RequiredSet |-> "absent"]]
JsonObject(fields) == [json |-> "object", fields |-> fields]

WithField(fields, f, x) == [g \in RequiredSet |-> IF g = f THEN x ELSE fields[g]]
AllNumbers == [f \in RequiredSet |-> "number"]

\* objects lacking up to MaxMissing fields, objects with one field of another
\* kind, and an object that lacks a field and has a text in an earlier one
Bodies ==
    { NotJson(kind) : kind \in {"none", "array", "string"} }
    \cup { JsonObject([f \in RequiredSet |-> IF f \in gone THEN "absent" ELSE "number"]) :
            gone \in { S \in SUBSET RequiredSet : Cardinality(S) <= MaxMissing } }
    \cup { JsonObject(WithField(AllNumbers, f, x)) :
            f \in RequiredSet, x \in {"text", "null"} }
    \cup { JsonObject([f \in RequiredSet |-> "numeric_string"]),
           JsonObject(WithField(WithField(AllNumbers, "nitrogen", "text"), "rainfall", "absent")) }

\* a cast that accepts every value
FloatCast_Lenient(x) == "None"

\* float(x)
FloatCast(x) ==
    CASE x = "number"         -> "None"
      [] x = "numeric_string" -> "None"
      [] x = "text"           -> "ValueError"
      [] x = "null"           -> "TypeError"
      [] OTHER                -> "KeyError"

\* the lowest n with P(n) among 1..Len(Required)
FirstRequired(S) == CHOOSE n \in S : \A m \in S : n <= m

ErrorResponse(status, text, detail, calls) ==
    [status |-> status, keys |-> {"error"}, error |-> <<text, detail>>,
     prediction |-> <<>>, info |-> "", top_3 |-> <<>>, model_calls |-> calls]

\* the request passes the checks of app.py:124-142, so that model.predict is called
ReachesModel(data) ==
    /\ data.json = "object"
    /\ \A f \in RequiredSet : data.fields[f] # "absent" /\ FloatCast(data.fields[f]) = "None"

\* the handler without the loop over the required fields
MissingFields_Skipped(data) == {}

\* app.py:129-132: the places in Required of the fields the body lacks
MissingFields(data) == { n \in 1..Len(Required) : data.fields[Required[n]] = "absent" }

\* data is the decoded body; predicted is what model.predict does on the
\* features; proba and argsorted are what predict_proba and np.argsort return
predict(data, predicted, proba, argsorted) ==
    LET missing == MissingFields(data)
        uncast  == { n \in 1..Len(Required) : FloatCast(data.fields[Required[n]]) # "None" }
        label   == to_crop_name(predicted.val)
        top3    == top_k_predictions(proba, argsorted, 3)
    IN  IF data.json # "object"
        THEN ErrorResponse(400, "Invalid JSON body", "", <<>>)
        ELSE IF missing # {}
        THEN ErrorResponse(400, "Missing field: ", Required[FirstRequired(missing)], <<>>)
        ELSE IF uncast # {}
        THEN ErrorResponse(500, "exception",
                           FloatCast(data.fields[Required[FirstRequired(uncast)]]), <<>>)
        ELSE IF predicted.exc # "None"
        THEN ErrorResponse(500, "exception", predicted.exc, <<"predict">>)
        ELSE IF label.exc # "None"
        THEN ErrorResponse(500, "exception", label.exc, <<"predict">>)
        ELSE IF top3.exc # "None"
        THEN ErrorResponse(500, "exception", top3.exc, <<"predict">> \o top3.calls)
        ELSE [status |-> 200,
              keys |-> {"prediction", "info"}
                       \cup (IF ~top3.is_none /\ Len(top3.results) > 0 THEN {"top_3"} ELSE {}),
              error |-> <<"", "">>,
              prediction |-> label.val.s,
              info |-> DictGet(crop_info, Lower(PyStrOf(label.val)), NO_INFO),
              top_3 |-> IF ~top3.is_none /\ Len(top3.results) > 0 THEN top3.results ELSE <<>>,
              model_calls |-> <<"predict">> \o top3.calls]

\* prediction[0] of what model.predict returns, or the exception it raises
PredictOutcomes ==
    { Raised("ValueError") }
    \cup { Returned(PyInt(-1)), Returned(PyInt(0)), Returned(PyInt(1)), Returned(PyStr(S_RICE)),
            Returned(PyFloat(20)) }

HandlePredict(data) ==
    /\ call = Idle
    /\ IF ReachesModel(data)
       THEN \E predicted \in PredictOutcomes :
              IF predicted.exc = "None" /\ model.predict_proba /\ model.has_classes
              THEN \E proba \in ProbaVectors(Len(model.classes_)) :
                     \E argsorted \in ArgsortOutcomes(proba) :
                        call' = [op |-> "predict", data |-> data, predicted |-> predicted,
                                 proba |-> proba,
                                 resp |-> predict(data, predicted, proba, argsorted)]
              ELSE call' = [op |-> "predict", data |-> data, predicted |-> predicted,
                            proba |-> NoProba,
                            resp |-> predict(data, predicted, NoProba, NoProba)]
       ELSE call' = [op |-> "predict", data |-> data, predicted |-> Raised("not called"),
                     proba |-> NoProba,
                     resp |-> predict(data, Raised("not called"), NoProba, NoProba)]
    /\ UNCHANGED <<model, crop_info, label_encoder, alphabetical_classes, int_to_class,
                   first, threads>>
    /\ UNCHANGED site_vars

\* GET /health: app.py:116-118
Health ==
    /\ call = Idle
    /\ call' = [op |-> "health", resp |-> [status |-> 200, keys |-> {"status"}]]
    /\ UNCHANGED <<model, crop_info, label_encoder, alphabetical_classes, int_to_class,
                   first, threads>>
    /\ UNCHANGED site_vars

\* The caller takes the result; the service is idle again
Respond ==
    /\ call # Idle
    /\ call' = Idle
    /\ first' = IF first = Idle THEN first ELSE [first EXCEPT !.others = TRUE]
    /\ UNCHANGED <<model, crop_info, label_encoder, alphabetical_classes, int_to_class,
                   threads>>
    /\ UNCHANGED site_vars

\* The caller of to_crop_name keeps the input and the result, to compare a
\* later call on the same input with it
Keep ==
    /\ call.op = "to_crop_name"
    /\ call.arg \in RepeatInputs
    /\ first = Idle
    /\ first' = [op |-> "to_crop_name", arg |-> call.arg, ret |-> call.ret, others |-> FALSE]
    /\ call' = Idle
    /\ UNCHANGED <<model, crop_info, label_encoder, alphabetical_classes, int_to_class,
                   threads>>
    /\ UNCHANGED site_vars

----------------------------------------------------------------------------
(* lib/database.py: the SQLite database agrisens.db.  A table is the sequence
   of its committed rows in rowid order.  SQLite lets one connection write at
   a time: a connection that has executed an INSERT holds the write lock until
   it commits, and the others wait for it. *)

Usernames == {"asha", "ravi"}
Passwords == {"pw1", "pw2"}
FarmUsers == {1, 2}
FarmInputs ==
    { [farm_name |-> "My Farm", location |-> "New Delhi", soil_type |-> "Loamy"],
      [farm_name |-> "Green Acres", location |-> "Pune", soil_type |-> "Sandy"] }

Clients == 1..MaxClients
Ready == [pc |-> "ready"]

\* hashlib.sha256(password.encode()).hexdigest()
hash_password(password) ==
    CASE password = "pw1" -> "c592df4a86933b92addc9842402ddf198c638ea9be58916ee6e3734e1e3152f8"
      [] password = "pw2" -> "93915a0a4bf8f634cb1856494dd4304472ad46b9827f541f76b6761c49cc55b0"

\* fetchone() of SELECT * FROM <table> WHERE <column> = <value>: the first
\* matching row in rowid order, or None
NoRow == [id |-> 0]
FetchOne(table, column, value) ==
    LET hits == { n \in 1..Len(table) : table[n][column] = value }
    IN  IF hits = {} THEN NoRow
        ELSE table[CHOOSE n \in hits : \A m \in hits : n <= m]

\* id INTEGER PRIMARY KEY AUTOINCREMENT, in a table no row is deleted from
NextId(table) == Len(table) + 1

\* another connection holds the write lock
WriteLocked(c) == \E d \in Clients : d # c /\ clients[d].pc = "commit"

Answer(c, op, args, ret) ==
    [clients EXCEPT ![c] = [pc |-> "returned", op |-> op, args |-> args, ret |-> ret]]

\* the users table without UNIQUE on username: the INSERT never fails
UsernameTaken_NoConstraint(username) == FALSE

\* username TEXT UNIQUE NOT NULL: the INSERT raises IntegrityError
UsernameTaken(username) == \E n \in 1..Len(users) : users[n].username = username

\* add_user, database.py:46-52 and 55-59: the INSERT is executed; on
\* IntegrityError the function returns False and closes the connection
AddUserInsert(c, username, password) ==
    /\ clients[c] = Ready
    /\ ~WriteLocked(c)
    /\ Len(users) < MaxUsers
    /\ clients' =
          IF UsernameTaken(username)
          THEN Answer(c, "add_user", <<username, password>>, FALSE)
          ELSE [clients EXCEPT ![c] =
                   [pc |-> "commit", op |-> "add_user", args |-> <<username, password>>,
                    row |-> [id |-> NextId(users), username |-> username,
                             password_hash |-> hash_password(password)]]]
    /\ UNCHANGED <<users, farms, sessions, disease>>
    /\ UNCHANGED crop_vars

\* add_user, database.py:53-54 and 58-59: commit, return True
AddUserCommit(c) ==
    /\ clients[c].pc = "commit"
    /\ users' = Append(users, clients[c].row)
    /\ clients' = Answer(c, "add_user", clients[c].args, TRUE)
    /\ UNCHANGED <<farms, sessions, disease>>
    /\ UNCHANGED crop_vars

\* check_user comparing the stored hash with the password itself
PasswordMatches_Unhashed(user, password) == user.password_hash = password

\* user['password_hash'] == hash_password(password)
PasswordMatches(user, password) == user.password_hash = hash_password(password)

\* check_user, database.py:61-70
check_user(username, password) ==
    LET user == FetchOne(users, "username", username)
    IN  IF user # NoRow /\ PasswordMatches(user, password) THEN user ELSE NoRow

CheckUser(c, username, password) ==
    /\ clients[c] = Ready
    /\ clients' = Answer(c, "check_user", <<username, password>>,
                         check_user(username, password))
    /\ UNCHANGED <<users, farms, sessions, disease>>
    /\ UNCHANGED crop_vars

\* the caller takes the result
Return(c) ==
    /\ clients[c].pc = "returned"
    /\ clients' = [clients EXCEPT ![c] = Ready]
    /\ UNCHANGED <<users, farms, sessions, disease>>
    /\ UNCHANGED crop_vars

\* get_farm_details, database.py:72-79
get_farm_details(user_id) == FetchOne(farms, "user_id", user_id)

GetFarmDetails(c, user_id) ==
    /\ clients[c] = Ready
    /\ clients' = Answer(c, "get_farm_details", <<user_id>>, get_farm_details(user_id))
    /\ UNCHANGED <<users, farms, sessions, disease>>
    /\ UNCHANGED crop_vars

\* the first saves that have read the table and not yet written their row
PendingInserts == { d \in Clients : clients[d].pc = "write" /\ ~clients[d].found }

\* update_farm_details, database.py:83-88: SELECT id FROM farms WHERE
\* user_id = ?, and fetchone()
UpdateFarmSelect(c, user_id, input) ==
    /\ clients[c] = Ready
    /\ Len(farms) + Cardinality(PendingInserts) < MaxFarms
    /\ clients' = [clients EXCEPT ![c] =
          [pc |-> "write", op |-> "update_farm_details", args |-> <<user_id, input>>,
           found |-> FetchOne(farms, "user_id", user_id) # NoRow]]
    /\ UNCHANGED <<users, farms, sessions, disease>>
    /\ UNCHANGED crop_vars

\* UPDATE farms SET ... WHERE user_id = ?: every row of the user
UpdateRows(user_id, input) ==
    [n \in 1..Len(farms) |->
        IF farms[n].user_id = user_id
        THEN [id |-> farms[n].id, user_id |-> user_id, farm_name |-> input.farm_name,
              location |-> input.location, soil_type |-> input.soil_type]
        ELSE farms[n]]

\* INSERT INTO farms (user_id, farm_name, location, soil_type)
InsertRow(user_id, input) ==
    Append(farms, [id |-> NextId(farms), user_id |-> user_id,
                   farm_name |-> input.farm_name, location |-> input.location,
                   soil_type |-> input.soil_type])

\* database.py:90-101: UPDATE when the SELECT found a row, INSERT otherwise
WriteFarm(found, user_id, input) ==
    IF found THEN UpdateRows(user_id, input) ELSE InsertRow(user_id, input)

\* update_farm_details, database.py:90-105: the write, the commit, return True
UpdateFarmWrite(c) ==
    /\ clients[c].pc = "write"
    /\ ~WriteLocked(c)
    /\ farms' = WriteFarm(clients[c].found, clients[c].args[1], clients[c].args[2])
    /\ clients' = Answer(c, "update_farm_details", clients[c].args, TRUE)
    /\ UNCHANGED <<users, sessions, disease>>
    /\ UNCHANGED crop_vars

----------------------------------------------------------------------------
(* dashboard.py and pages/4_Farm_Profile.py: the browser sessions *)

Sessions == 1..MaxSessions

\* st.session_state of a session in which no script has run: no key is set.
\* `last` is the latest script run of the session: the page, what the user
\* did, and the calls it made into lib/database.py
NoSession == [run |-> FALSE, logged_in |-> FALSE, username |-> "", user_id |-> 0,
              last |-> [op |-> "none"]]

\* dashboard.py:20-26: the keys the session lacks are set
Initialised(ss) ==
    IF ss.run THEN ss
    ELSE [run |-> TRUE, logged_in |-> FALSE, username |-> "", user_id |-> 0,
          last |-> ss.last]

\* a run of dashboard.py in which the user presses nothing
DashboardView(s) ==
    /\ sessions' = [sessions EXCEPT ![s] =
          [Initialised(sessions[s]) EXCEPT !.last = [op |-> "view"]]]
    /\ UNCHANGED <<users, farms, clients, disease>>
    /\ UNCHANGED crop_vars

\* dashboard.py:55: if user
LoginAccepts(user) == user # NoRow

\* dashboard.py:52-61: the form is submitted with Login chosen
LoginSubmit(s, username, password) ==
    /\ ~Initialised(sessions[s]).logged_in
    /\ LET ss   == Initialised(sessions[s])
           user == check_user(username, password)
       IN  sessions' = [sessions EXCEPT ![s] =
              IF LoginAccepts(user)
              THEN [run |-> TRUE, logged_in |-> TRUE, username |-> user.username,
                    user_id |-> user.id, last |-> [op |-> "login", user |-> user]]
              ELSE [ss EXCEPT !.last = [op |-> "login", user |-> user]]]
    /\ UNCHANGED <<users, farms, clients, disease>>
    /\ UNCHANGED crop_vars

\* dashboard.py:63-67: the form is submitted with Sign Up chosen; add_user
\* runs from its INSERT to its commit
SignUpSubmit(s, username, password) ==
    /\ ~Initialised(sessions[s]).logged_in
    /\ Len(users) < MaxUsers
    /\ users' = IF UsernameTaken(username) THEN users
                ELSE Append(users, [id |-> NextId(users), username |-> username,
                                    password_hash |-> hash_password(password)])
    /\ sessions' = [sessions EXCEPT ![s] =
          [Initialised(sessions[s]) EXCEPT
              !.last = [op |-> "signup", ret |-> ~UsernameTaken(username)]]]
    /\ UNCHANGED <<farms, clients, disease>>
    /\ UNCHANGED crop_vars

\* Logout that clears logged_in only
Logout_KeepsUser(s) ==
    /\ Initialised(sessions[s]).logged_in
    /\ sessions' = [sessions EXCEPT ![s] =
          [sessions[s] EXCEPT !.logged_in = FALSE, !.last = [op |-> "logout"]]]
    /\ UNCHANGED <<users, farms, clients, disease>>
    /\ UNCHANGED crop_vars

\* dashboard.py:32-38: Logout is pressed
Logout(s) ==
    /\ Initialised(sessions[s]).logged_in
    /\ sessions' = [sessions EXCEPT ![s] =
          [run |-> TRUE, logged_in |-> FALSE, username |-> "", user_id |-> 0,
           last |-> [op |-> "logout"]]]
    /\ UNCHANGED <<users, farms, clients, disease>>
    /\ UNCHANGED crop_vars

----------------------------------------------------------------------------
(* pages/3_Disease_Recognition.py *)

\* st.session_state.get('logged_in'): None when the key is not set
SessionLoggedIn(ss) == ss.run /\ ss.logged_in

\* the farm profile page without its login check
FarmPageAllowed_NoCheck(ss) == TRUE

\* 4_Farm_Profile.py:25-27: the page goes on only for a logged-in session
FarmPageAllowed(ss) == SessionLoggedIn(ss)

\* 4_Farm_Profile.py:24-76, nothing submitted: the login check, then the
\* saved details are loaded for the form
FarmProfileView(s) ==
    /\ sessions' = [sessions EXCEPT ![s] =
          [sessions[s] EXCEPT !.last =
              [op |-> "farm_view",
               calls |-> IF FarmPageAllowed(sessions[s])
                         THEN <<[fn |-> "get_farm_details",
                                 user_id |-> sessions[s].user_id]>>
                         ELSE <<>>]]]
    /\ UNCHANGED <<users, farms, clients, disease>>
    /\ UNCHANGED crop_vars

\* 4_Farm_Profile.py:24-76, Save Profile submitted: the login check, the load,
\* and update_farm_details from its SELECT to its commit
FarmProfileSave(s, input) ==
    /\ Len(farms) < MaxFarms
    /\ LET ss      == sessions[s]
           user_id == ss.user_id
       IN  IF FarmPageAllowed(ss)
           THEN /\ farms' = WriteFarm(FetchOne(farms, "user_id", user_id) # NoRow,
                                      user_id, input)
                /\ sessions' = [sessions EXCEPT ![s] =
                      [ss EXCEPT !.last =
                          [op |-> "farm_save",
                           calls |-> <<[fn |-> "get_farm_details", user_id |-> user_id],
                                       [fn |-> "update_farm_details",
                                        user_id |-> user_id]>>]]]
           ELSE /\ farms' = farms
                /\ sessions' = [sessions EXCEPT ![s] =
                      [ss EXCEPT !.last = [op |-> "farm_save", calls |-> <<>>]]]
    /\ UNCHANGED <<users, clients, disease>>
    /\ UNCHANGED crop_vars

\* pages/3_Disease_Recognition.py: the disease recognition page

\* names of the files a visitor uploads
UploadNames == {"leaf.jpg", "rust.png"}

\* 3_Disease_Recognition.py:250: f"temp_{uploaded_file.name}"
temp_path(name) ==
    CASE name = "leaf.jpg" -> "temp_leaf.jpg"
      [] name = "rust.png" -> "temp_rust.png"

\* 3_Disease_Recognition.py:253-257: the calls between the write of the
\* temporary file and its removal, in the order the page makes them
AnalysisCalls == <<"preprocess_image", "extract_features", "predict", "get_disease_info">>

\* how an analysis goes: every call returns, or the i-th one raises
AnalysisRuns == {0} \cup (1..Len(AnalysisCalls))

\* 3_Disease_Recognition.py:247-312: Analyze Image is pressed for an uploaded
\* file. The file is written, the calls are made, and os.remove runs at line 258
\* when none of them raised; the except clause at 310-312 reports the error.
AnalyzeImage(name, raises) ==
    /\ disease' = [disease EXCEPT
          !.files = IF raises = 0
                    THEN disease.files \ {temp_path(name)}
                    ELSE disease.files \cup {temp_path(name)},
          !.analysis = [pc |-> "finished", name |-> name,
                        error |-> IF raises = 0 THEN "none"
                                  ELSE AnalysisCalls[raises]]]
    /\ UNCHANGED <<users, farms, clients, sessions>>
    /\ UNCHANGED crop_vars

\* 3_Disease_Recognition.py:365: the disease database, one record per key
Diseases == 1..MaxDiseases

get_disease_info(disease_key) ==
    [plant    |-> IF disease_key % 2 = 1 THEN "Apple" ELSE "Tomato",
     severity |-> IF disease_key % 3 = 0 THEN "High" ELSE "Low",
     name     |-> IF disease_key <= 2 THEN "Late blight" ELSE "Apple scab"]

\* 3_Disease_Recognition.py:358-364: the values of the three filters
PlantTypes == {"All", "Apple", "Tomato"}
SeverityLevels == {"All", "High", "Low"}
SearchTerms == {"", "blight"}

\* 3_Disease_Recognition.py:372: search_term.lower() in name.lower()
Contains(name, term) ==
    \/ term = ""
    \/ term = "blight" /\ name = "Late blight"

\* 3_Disease_Recognition.py:366-375: the entries the filters keep
filtered_diseases(selected_plant, selected_severity, search_term) ==
    {disease_key \in Diseases :
        LET disease_info == get_disease_info(disease_key)
        IN  /\ selected_plant = "All" \/ disease_info.plant = selected_plant
            /\ selected_severity = "All" \/ disease_info.severity = selected_severity
            /\ search_term = "" \/ Contains(disease_info.name, search_term)}

\* 3_Disease_Recognition.py:378
diseases_per_page == 12

\* 3_Disease_Recognition.py:379
total_pages(count) == (count - 1) \div diseases_per_page + 1

\* the filtered list of the filters now on the page
CurrentDiseases == filtered_diseases(disease.plant, disease.severity, disease.search)

\* 3_Disease_Recognition.py:377-385: the pagination of one script run over a
\* filtered list of `count` entries; `selected` is the page the visitor picked
\* in the selector, 0 when the run was triggered by something else. An empty
\* list skips the block; an index outside the options makes st.selectbox raise,
\* which ends the run with session_state.page as it was.
Paginate(count, page, selected) ==
    IF count = 0
    THEN [page |-> page, raised |-> FALSE]
    ELSE LET start == IF page = 0 THEN 1 ELSE page
         IN  IF start - 1 \notin 0..(total_pages(count) - 1)
             THEN [page |-> start, raised |-> TRUE]
             ELSE [page |-> IF selected = 0 THEN start ELSE selected, raised |-> FALSE]

\* 3_Disease_Recognition.py:351-385: a rerun of the database page after the
\* visitor changed the plant, severity or search filter
ChangeFilters(selected_plant, selected_severity, search_term) ==
    /\ LET count == Cardinality(filtered_diseases(selected_plant, selected_severity,
                                                   search_term))
           run   == Paginate(count, disease.page, 0)
       IN  disease' = [disease EXCEPT !.plant = selected_plant,
                                      !.severity = selected_severity,
                                      !.search = search_term,
                                      !.page = run.page,
                                      !.raised = run.raised]
    /\ UNCHANGED <<users, farms, clients, sessions>>
    /\ UNCHANGED crop_vars

\* 3_Disease_Recognition.py:384-385: a rerun after the visitor picked a page
\* in the selector the previous run displayed
SelectPage(selected) ==
    /\ ~disease.raised
    /\ disease.page # 0
    /\ CurrentDiseases # {}
    /\ selected \in 1..total_pages(Cardinality(CurrentDiseases))
    /\ LET run == Paginate(Cardinality(CurrentDiseases), disease.page, selected)
       IN  disease' = [disease EXCEPT !.page = run.page, !.raised = run.raised]
    /\ UNCHANGED <<users, farms, clients, sessions>>
    /\ UNCHANGED crop_vars

\* the page before its first run: no temporary file, no analysis, the filters
\* at their defaults and 'page' not in st.session_state (0)
DiseaseStart ==
    [files |-> {}, analysis |-> [pc |-> "none"],
     plant |-> "All", severity |-> "All", search |-> "", page |-> 0, raised |-> FALSE]

\* the dashboard before any request: empty tables, no call, no session
SiteStart ==
    /\ users = <<>>
    /\ farms = <<>>
    /\ clients = [c \in Clients |-> Ready]
    /\ sessions = [s \in Sessions |-> NoSession]
    /\ disease = DiseaseStart

Init ==
    /\ model \in Models
    /\ crop_info \in CatalogFiles
    /\ \E file \in EncoderFiles : label_encoder = LoadLabelEncoder(file)
    /\ alphabetical_classes = BuildAlphabeticalClasses(crop_info)
    /\ int_to_class = BuildIntToClass(alphabetical_classes)
    /\ call = Idle
    /\ first = Idle
    /\ threads = [t \in Threads |-> Waiting]
    /\ SiteStart

Next ==
    \/ \E pred_val \in PredVals : CallToCropName(pred_val)
    \/ \E cls_val \in Scalars : CallMapClassLabel(cls_val)
    \/ \E k \in 1..MaxK : CallTopK(k)
    \/ \E data \in Bodies : HandlePredict(data)
    \/ Health
    \/ Respond

Spec == Init /\ [][Next]_vars

----------------------------------------------------------------------------
(* POST /predict served by several threads, one step at a time.  A step is a
   stretch of app.py:120-158 that reads the module globals at most once. *)

\* the bodies and the outcomes of model.predict of the concurrent requests
ConcurrentBodies ==
    { JsonObject(AllNumbers),
      JsonObject(WithField(AllNumbers, "rainfall", "absent")),
      JsonObject(WithField(AllNumbers, "nitrogen", "text")) }
ConcurrentOutcomes == { Raised("ValueError"), Returned(PyInt(0)), Returned(PyInt(1)) }

Answering(t, data, predicted, proba, argsorted, resp) ==
    [threads EXCEPT ![t] = [pc |-> "respond", data |-> data, predicted |-> predicted,
                            proba |-> proba, argsorted |-> argsorted, resp |-> resp]]

\* app.py:122-142: the body is decoded, validated and cast; these lines touch
\* the request only
Receive(t, data) ==
    /\ threads[t].pc = "waiting"
    /\ threads' =
          IF ReachesModel(data)
          THEN [threads EXCEPT ![t] = [pc |-> "predict", data |-> data]]
          ELSE Answering(t, data, Raised("not called"), NoProba, NoProba,
                         predict(data, Raised("not called"), NoProba, NoProba))
    /\ UNCHANGED <<model, crop_info, label_encoder, alphabetical_classes, int_to_class,
                   call, first>>
    /\ UNCHANGED site_vars

\* app.py:144: prediction = model.predict(features)
ModelPredict(t) ==
    /\ threads[t].pc = "predict"
    /\ \E predicted \in ConcurrentOutcomes :
          threads' =
             IF predicted.exc # "None"
             THEN Answering(t, threads[t].data, predicted, NoProba, NoProba,
                            ErrorResponse(500, "exception", predicted.exc, <<"predict">>))
             ELSE [threads EXCEPT ![t] = [pc |-> "resolve", data |-> threads[t].data,
                                          predicted |-> predicted]]
    /\ UNCHANGED <<model, crop_info, label_encoder, alphabetical_classes, int_to_class,
                   call, first>>
    /\ UNCHANGED site_vars

\* label_str as a module global: the label is written where every request
\* in progress reads it
Resolve_SharedLabel(t) ==
    /\ threads[t].pc = "resolve"
    /\ LET label == to_crop_name(threads[t].predicted.val)
       IN  threads' = [u \in Threads |->
              IF u = t
              THEN [pc |-> "rank", data |-> threads[t].data,
                    predicted |-> threads[t].predicted, label_str |-> label.val.s]
              ELSE IF threads[u].pc \in {"rank", "build"}
              THEN [threads[u] EXCEPT !.label_str = label.val.s]
              ELSE threads[u]]
    /\ UNCHANGED <<model, crop_info, label_encoder, alphabetical_classes, int_to_class,
                   call, first>>
    /\ UNCHANGED site_vars

\* app.py:145-146: label_str = to_crop_name(prediction[0])
Resolve(t) ==
    /\ threads[t].pc = "resolve"
    /\ LET label == to_crop_name(threads[t].predicted.val)
       IN  threads' =
             IF label.exc # "None"
             THEN Answering(t, threads[t].data, threads[t].predicted, NoProba, NoProba,
                            ErrorResponse(500, "exception", label.exc, <<"predict">>))
             ELSE [threads EXCEPT ![t] = [pc |-> "rank", data |-> threads[t].data,
                                          predicted |-> threads[t].predicted,
                                          label_str |-> label.val.s]]
    /\ UNCHANGED <<model, crop_info, label_encoder, alphabetical_classes, int_to_class,
                   call, first>>
    /\ UNCHANGED site_vars

\* app.py:148: top3 = top_k_predictions(features, k=3)
Rank(t) ==
    /\ threads[t].pc = "rank"
    /\ \E proba \in (IF model.predict_proba /\ model.has_classes
                     THEN ProbaVectors(Len(model.classes_)) ELSE {NoProba}) :
         \E argsorted \in ArgsortOutcomes(proba) :
            LET top3 == top_k_predictions(proba, argsorted, 3)
            IN  threads' =
                  IF top3.exc # "None"
                  THEN Answering(t, threads[t].data, threads[t].predicted, proba, argsorted,
                                 ErrorResponse(500, "exception", top3.exc,
                                               <<"predict">> \o top3.calls))
                  ELSE [threads EXCEPT ![t] =
                           [pc |-> "build", data |-> threads[t].data,
                            predicted |-> threads[t].predicted,
                            label_str |-> threads[t].label_str,
                            proba |-> proba, argsorted |-> argsorted, top3 |-> top3]]
    /\ UNCHANGED <<model, crop_info, label_encoder, alphabetical_classes, int_to_class,
                   call, first>>
    /\ UNCHANGED site_vars

\* app.py:150-156: the response is built from label_str, the catalog and top3
Build(t) ==
    /\ threads[t].pc = "build"
    /\ LET th    == threads[t]
           given == ~th.top3.is_none /\ Len(th.top3.results) > 0
       IN  threads' = Answering(t, th.data, th.predicted, th.proba, th.argsorted,
              [status |-> 200,
               keys |-> {"prediction", "info"} \cup (IF given THEN {"top_3"} ELSE {}),
               error |-> <<"", "">>,
               prediction |-> th.label_str,
               info |-> DictGet(crop_info, Lower(th.label_str), NO_INFO),
               top_3 |-> IF given THEN th.top3.results ELSE <<>>,
               model_calls |-> <<"predict">> \o th.top3.calls])
    /\ UNCHANGED <<model, crop_info, label_encoder, alphabetical_classes, int_to_class,
                   call, first>>
    /\ UNCHANGED site_vars

\* the response is sent and the thread takes the next request
Send(t) ==
    /\ threads[t].pc = "respond"
    /\ threads' = [threads EXCEPT ![t] = Waiting]
    /\ UNCHANGED <<model, crop_info, label_encoder, alphabetical_classes, int_to_class,
                   call, first>>
    /\ UNCHANGED site_vars

\* a classifier of one encoded class and a catalog of two crops
ConcurrentInit == Init /\ model.classes_ = IntClasses(1) /\ Len(crop_info) = 2

ConcurrentNext ==
    \E t \in Threads :
        \/ \E data \in ConcurrentBodies : Receive(t, data)
        \/ ModelPredict(t)
        \/ Resolve(t)
        \/ Rank(t)
        \/ Build(t)
        \/ Send(t)

ConcurrentSpec == ConcurrentInit /\ [][ConcurrentNext]_vars

\* Repeated calls: the service with a classifier of one class, and a caller
\* that keeps the result of one to_crop_name call while it goes on calling
RepeatInit == Init /\ model.classes_ = IntClasses(1)

RepeatNext ==
    \/ \E pred_val \in PredVals : CallToCropName(pred_val)
    \/ \E cls_val \in Scalars : CallMapClassLabel(cls_val)
    \/ \E k \in 1..MaxK : CallTopK(k)
    \/ \E data \in Bodies : HandlePredict(data)
    \/ Health
    \/ Respond
    \/ Keep

RepeatSpec == RepeatInit /\ [][RepeatNext]_vars

----------------------------------------------------------------------------
(* The users table under concurrent callers *)

\* the crop service plays no part: one classifier, no catalog, no encoder
CropAtRest ==
    /\ model.classes_ = IntClasses(1)
    /\ crop_info = <<>>
    /\ label_encoder = NoEncoder

UsersInit == Init /\ CropAtRest

UsersNext ==
    \E c \in Clients :
        \/ \E username \in Usernames, password \in Passwords :
              AddUserInsert(c, username, password)
        \/ AddUserCommit(c)
        \/ \E username \in Usernames, password \in Passwords :
              CheckUser(c, username, password)
        \/ Return(c)

UsersSpec == UsersInit /\ [][UsersNext]_vars

\* The farms table under concurrent callers
FarmsNext ==
    \E c \in Clients :
        \/ \E user_id \in FarmUsers, input \in FarmInputs :
              UpdateFarmSelect(c, user_id, input)
        \/ UpdateFarmWrite(c)
        \/ \E user_id \in FarmUsers : GetFarmDetails(c, user_id)
        \/ Return(c)

FarmsSpec == UsersInit /\ [][FarmsNext]_vars

\* dashboard.py:55-56: the password each visitor types when signing up; a Login
\* may type any of Passwords
ChosenPassword(username) == IF username = "asha" THEN "pw1" ELSE "pw2"

\* The dashboard and the farm profile page in several browser sessions
SiteNext ==
    \E s \in Sessions :
        \/ DashboardView(s)
        \/ \E username \in Usernames, password \in Passwords :
              LoginSubmit(s, username, password)
        \/ \E username \in Usernames :
              SignUpSubmit(s, username, ChosenPassword(username))
        \/ Logout(s)
        \/ FarmProfileView(s)
        \/ \E input \in FarmInputs : FarmProfileSave(s, input)

SiteSpec == UsersInit /\ [][SiteNext]_vars

\* The disease recognition page: analyses and reruns of the database page
DiseaseNext ==
    \/ \E name \in UploadNames, raises \in AnalysisRuns : AnalyzeImage(name, raises)
    \/ \E selected_plant \in PlantTypes, selected_severity \in SeverityLevels,
          search_term \in SearchTerms :
            ChangeFilters(selected_plant, selected_severity, search_term)
    \/ \E selected \in 1..total_pages(MaxDiseases) : SelectPage(selected)

DiseaseSpec == UsersInit /\ [][DiseaseNext]_vars

----------------------------------------------------------------------------
(* Properties *)

\* s is the decimal text of i: an optional minus sign, then the digits of |i|
\* without leading zeros
RECURSIVE DigitsValue(_)
DigitsValue(s) ==
    IF Len(s) = 0 THEN 0 ELSE 10 * DigitsValue(SubSeq(s, 1, Len(s) - 1)) + (s[Len(s)] - 48)

IsDecimalOf(s, i) ==
    LET digits == IF i < 0 THEN Tail(s) ELSE s
    IN  /\ Len(s) >= 1
        /\ (i < 0) = (s[1] = 45)
        /\ Len(digits) >= 1
        /\ \A n \in 1..Len(digits) : digits[n] \in 48..57
        /\ Len(digits) > 1 => digits[1] # 48
        /\ DigitsValue(digits) = (IF i < 0 THEN 0 - i ELSE i)

\* a and b are the same text up to the case of ASCII letters
EqualsIgnoringCase(a, b) ==
    /\ Len(a) = Len(b)
    /\ \A n \in 1..Len(a) :
          \/ a[n] = b[n]
          \/ a[n] \in 65..90 /\ b[n] = a[n] + 32
          \/ b[n] \in 65..90 /\ a[n] = b[n] + 32

\* the encoder decodes index i: it is a LabelEncoder and i is one of its classes
EncoderCovers(i) ==
    label_encoder.kind = "LabelEncoder" /\ i \in 0..(Len(label_encoder.classes) - 1)

\* the text of a class of the encoder
EncoderLabelIs(cls, s) ==
    IF cls.t = "str" THEN s = cls.s ELSE IsDecimalOf(s, cls.i)

\* C1: to_crop_name never raises and always returns a string, whatever the
\* input (integers in and out of range, strings, lists and arrays, None,
\* floats, booleans) and whatever the encoder (absent, working, raising).
C1_ToCropNameAlwaysReturnsString ==
    call.op = "to_crop_name" =>
        /\ call.ret.exc = "None"
        /\ call.ret.val.t = "str"

\* C2: for an integer prediction i the encoder's label wins when the encoder
\* decodes i; when the encoder is absent or raises, the result is
\* int_to_class[i] (for i in the mapping); the call never raises.
C2_EncoderThenAlphabetical ==
    (call.op = "to_crop_name" /\ call.arg.t = "int") =>
        /\ call.ret.exc = "None"
        /\ EncoderCovers(call.arg.i) =>
              EncoderLabelIs(label_encoder.classes[call.arg.i + 1], call.ret.val.s)
        /\ (~EncoderCovers(call.arg.i) /\ call.arg.i \in DOMAIN int_to_class) =>
              call.ret.val.s = int_to_class[call.arg.i]

\* C2 witness: index 1 resolved to the encoder's 'Wheat' although the
\* alphabetical mapping names class 1 otherwise.
C2_Witness ==
    /\ call.op = "to_crop_name"
    /\ call.arg = PyInt(1)
    /\ EncoderCovers(1)
    /\ 1 \in DOMAIN int_to_class
    /\ call.ret.val.s = S_Wheat
    /\ int_to_class[1] # S_Wheat

\* C3: an integer i covered neither by the encoder nor by int_to_class is
\* returned as its decimal string, without raising.
C3_OutOfRangeIsStringified ==
    (/\ call.op = "to_crop_name"
     /\ call.arg.t = "int"
     /\ ~EncoderCovers(call.arg.i)
     /\ call.arg.i \notin DOMAIN int_to_class) =>
        /\ call.ret.exc = "None"
        /\ call.ret.val.t = "str"
        /\ IsDecimalOf(call.ret.val.s, call.arg.i)

\* C3 witness: -1 came back as '-1' with a loaded encoder raising on it and a
\* non-empty catalog.
C3_Witness ==
    /\ call.op = "to_crop_name"
    /\ call.arg = PyInt(-1)
    /\ label_encoder.kind = "LabelEncoder"
    /\ Len(crop_info) > 0
    /\ call.ret.val.s = <<45, 49>>

\* C4: int_to_class is defined exactly on 0..|C|-1, is injective, maps onto
\* the catalog keys in ascending order (int_to_class[i] = sorted(C)[i]), and
\* depends only on the key set, not on the order of the keys in the file.
C4_FallbackMappingIsSortedCatalog ==
    LET n == Len(crop_info)
        C == { crop_info[m].key : m \in 1..n }
    IN  /\ DOMAIN int_to_class = 0..(n - 1)
        /\ IsInjective(int_to_class)
        /\ { int_to_class[i] : i \in DOMAIN int_to_class } = C
        /\ \A i, j \in DOMAIN int_to_class : i < j => StrLess(int_to_class[i], int_to_class[j])
        /\ Len(alphabetical_classes) = n
        /\ \A i \in DOMAIN int_to_class : int_to_class[i] = alphabetical_classes[i + 1]
        /\ \A other \in CatalogFiles :
              { other[m].key : m \in 1..Len(other) } = C =>
                 BuildIntToClass(BuildAlphabeticalClasses(other)) = int_to_class

\* C4 witness: a catalog of two or more crops whose file order is not the
\* alphabetical order, and index 0 resolved through the mapping.
C4_Witness ==
    /\ Len(crop_info) >= 2
    /\ DictKeys(crop_info) # alphabetical_classes
    /\ label_encoder.kind = "None"
    /\ call.op = "to_crop_name"
    /\ call.arg = PyInt(0)
    /\ call.ret.val.s = int_to_class[0]

\* the ranking of the last operation: of a direct top_k_predictions call, or of
\* the call made by /predict
RankedCall == call.op = "top_k_predictions" /\ ~call.ret.is_none /\ call.ret.exc = "None"

\* C5: top_k_predictions returns exactly min(k, n) entries, each for a
\* distinct class index, in non-increasing order of probability, and no class
\* left out is more probable than a class included.
C5_TopKLengthAndOrder ==
    RankedCall =>
        LET n   == Len(call.proba)
            res == call.ret.results
            idx == call.ret.indices
        IN  /\ Len(res) = Min(call.k, n)
            /\ Len(idx) = Len(res)
            /\ IsInjective(idx)
            /\ \A a \in 1..Len(idx) :
                  /\ idx[a] \in 0..(n - 1)
                  /\ res[a].probability = call.proba[idx[a] + 1]
            /\ \A a, b \in 1..Len(res) : a < b => res[a].probability >= res[b].probability
            /\ \A j \in 0..(n - 1) :
                  (\A a \in 1..Len(idx) : idx[a] # j) =>
                      \A a \in 1..Len(res) : call.proba[j + 1] <= res[a].probability

\* C5 witness: probabilities [0.1, 0.7, 0.2, 0] over [rice, maize, jute, wheat] with
\* k = 2 gave maize 0.7 then jute 0.2.
C5_Witness ==
    /\ call.op = "top_k_predictions"
    /\ call.proba = <<1, 7, 2, 0>>
    /\ call.k = 2
    /\ model.classes_ = NameClasses
    /\ Len(call.ret.results) = 2
    /\ call.ret.results[1].label = S_maize /\ call.ret.results[1].probability = 7
    /\ call.ret.results[2].label = S_jute /\ call.ret.results[2].probability = 2

\* C6: classes of equal probability are ranked in the order of model.classes_
\* (lower class index first), and when a tie straddles the cut at k the
\* lower-index classes are the ones kept.
C6_TiesKeepClassOrder ==
    RankedCall =>
        LET n   == Len(call.proba)
            idx == call.ret.indices
        IN  /\ \A a, b \in 1..Len(idx) :
                  (a < b /\ call.proba[idx[a] + 1] = call.proba[idx[b] + 1]) => idx[a] < idx[b]
            /\ \A j \in 0..(n - 1) :
                  (\A a \in 1..Len(idx) : idx[a] # j) =>
                      \A a \in 1..Len(idx) :
                          call.proba[j + 1] = call.proba[idx[a] + 1] => idx[a] < j

\* C7: a model without predict_proba or without classes_ makes
\* top_k_predictions return None without raising, and /predict still answers
\* 200 with prediction and info and no top_3 key.
C7_MissingCapabilitySkipsTop3 ==
    ~(model.predict_proba /\ model.has_classes) =>
        /\ call.op = "top_k_predictions" => call.ret.exc = "None" /\ call.ret.is_none
        /\ (call.op = "predict" /\ ReachesModel(call.data) /\ call.predicted.exc = "None") =>
              /\ call.resp.status = 200
              /\ call.resp.keys = {"prediction", "info"}

\* C7 witness: a model with predict_proba but no classes_ answered 200 without
\* top_3, having called predict_proba.
C7_Witness ==
    /\ call.op = "predict"
    /\ model.predict_proba /\ ~model.has_classes
    /\ call.resp.status = 200
    /\ "top_3" \notin call.resp.keys
    /\ call.resp.model_calls = <<"predict", "predict_proba">>

\* the catalog text of the key that equals the label up to letter case, if any
InfoMatchesCatalog(label, info) ==
    \A m \in 1..Len(crop_info) :
        EqualsIgnoringCase(label, crop_info[m].key) => info = crop_info[m].info

\* C8: the info of the prediction and of every top_3 entry is crop_info[c]
\* whenever the resolved label equals the key c up to letter case, and the
\* label returned keeps its case.
C8_InfoLookupIgnoresCase ==
    /\ (call.op = "predict" /\ call.resp.status = 200) =>
          /\ InfoMatchesCatalog(call.resp.prediction, call.resp.info)
          /\ call.predicted.val.t = "str" => call.resp.prediction = call.predicted.val.s
          /\ \A a \in 1..Len(call.resp.top_3) :
                InfoMatchesCatalog(call.resp.top_3[a].label, call.resp.top_3[a].info)
    /\ RankedCall =>
          \A a \in 1..Len(call.ret.results) :
             /\ InfoMatchesCatalog(call.ret.results[a].label, call.ret.results[a].info)
             /\ model.classes_[call.ret.indices[a] + 1].t = "str" =>
                   call.ret.results[a].label = model.classes_[call.ret.indices[a] + 1].s

\* C8 witness: the prediction 'RICE' and a top_3 entry 'Rice' both carry the
\* text of the catalog key 'rice'.
C8_Witness ==
    /\ call.op = "predict"
    /\ call.resp.status = 200
    /\ call.resp.prediction = S_RICE
    /\ call.resp.info = CatalogText(S_rice)
    /\ \E a \in 1..Len(call.resp.top_3) :
          /\ call.resp.top_3[a].label = S_Rice
          /\ call.resp.top_3[a].info = CatalogText(S_rice)

\* no catalog key equals the label up to letter case
MissesCatalog(label) ==
    \A m \in 1..Len(crop_info) : ~EqualsIgnoringCase(label, crop_info[m].key)

\* C9: when the lowercased label is no catalog key, the info of the prediction
\* and of a top_3 entry is the sentinel; the lookup never raises (the request
\* is answered 200) and never yields a missing value.
C9_MissingInfoIsSentinel ==
    /\ (call.op = "predict" /\ ReachesModel(call.data) /\ call.predicted.exc = "None") =>
          /\ call.resp.status = 200
          /\ MissesCatalog(call.resp.prediction) => call.resp.info = NO_INFO
          /\ call.resp.info \in {NO_INFO} \cup { crop_info[m].info : m \in 1..Len(crop_info) }
          /\ \A a \in 1..Len(call.resp.top_3) :
                MissesCatalog(call.resp.top_3[a].label) => call.resp.top_3[a].info = NO_INFO
    /\ RankedCall =>
          \A a \in 1..Len(call.ret.results) :
             MissesCatalog(call.ret.results[a].label) => call.ret.results[a].info = NO_INFO

\* C9 witness: the out-of-range prediction -1 came back as its decimal string
\* with the sentinel, beside a top_3 entry 'jute' with the sentinel.
C9_Witness ==
    /\ call.op = "predict"
    /\ call.predicted = Returned(PyInt(-1))
    /\ Len(crop_info) > 0
    /\ IsDecimalOf(call.resp.prediction, -1)
    /\ call.resp.info = NO_INFO
    /\ \E a \in 1..Len(call.resp.top_3) :
          call.resp.top_3[a].label = S_jute /\ call.resp.top_3[a].info = NO_INFO

\* C10: a JSON object lacking a required field is answered 400 with an error
\* body, and neither model.predict nor model.predict_proba is called.
C10_MissingFieldIs400 ==
    (/\ call.op = "predict"
     /\ call.data.json = "object"
     /\ \E f \in RequiredSet : call.data.fields[f] = "absent") =>
        /\ call.resp.status = 400
        /\ call.resp.keys = {"error"}
        /\ call.resp.error[1] = "Missing field: "
        /\ call.resp.error[2] \in RequiredSet
        /\ call.data.fields[call.resp.error[2]] = "absent"
        /\ call.resp.model_calls = <<>>

\* C10 witness: a body without rainfall, whose nitrogen is no number, was
\* answered 400 naming rainfall.
C10_Witness ==
    /\ call.op = "predict"
    /\ call.data.json = "object"
    /\ call.data.fields["rainfall"] = "absent"
    /\ call.data.fields["nitrogen"] = "text"
    /\ call.resp.status = 400
    /\ call.resp.error = <<"Missing field: ", "rainfall">>

\* a str: a sequence of character codes
IsText(s) == s \in Seq(0..127)

\* the call was a /predict request answered with the success status
Succeeded == call.op = "predict" /\ call.resp.status = 200

\* C11: a success response of /predict has a string prediction and a string
\* info and no error key; top_3, when present, is a list of 1 to 3 entries,
\* each with a string label, a numeric probability and a string info.
C11_SuccessResponseShape ==
    Succeeded =>
        LET resp == call.resp
        IN  /\ {"prediction", "info"} \subseteq resp.keys
            /\ resp.keys \subseteq {"prediction", "info", "top_3"}
            /\ IsText(resp.prediction)
            /\ resp.info \in STRING
            /\ "top_3" \in resp.keys =>
                  /\ Len(resp.top_3) \in 1..3
                  /\ \A a \in 1..Len(resp.top_3) :
                        /\ DOMAIN resp.top_3[a] = {"label", "probability", "info"}
                        /\ IsText(resp.top_3[a].label)
                        /\ resp.top_3[a].probability \in 0..10
                        /\ resp.top_3[a].info \in STRING

\* C11 witness: a model of four classes answered with a prediction, its info
\* and exactly three ranked entries.
C11_Witness ==
    /\ Succeeded
    /\ Len(model.classes_) = 4
    /\ call.resp.keys = {"prediction", "info", "top_3"}
    /\ Len(call.resp.top_3) = 3
    /\ call.resp.top_3[1].probability = 5
    /\ call.resp.top_3[3].probability = 2

\* C12: every POST /predict is answered with one of three outcomes: 400 with
\* an error body exactly when the body is no JSON object or lacks a required
\* field; otherwise 500 with an error body when a field cannot be cast to
\* float or the model raises; and 200 with a prediction only when none of
\* these happened.
C12_ThreeOutcomes ==
    call.op = "predict" =>
        LET resp       == call.resp
            rejected   == \/ call.data.json # "object"
                          \/ \E f \in RequiredSet : call.data.fields[f] = "absent"
            uncastable == \E f \in RequiredSet : call.data.fields[f] \in {"text", "null"}
            modelRaised == call.predicted.exc \notin {"None", "not called"}
        IN  /\ resp.status \in {200, 400, 500}
            /\ resp.status = 400 <=> rejected
            /\ (~rejected /\ (uncastable \/ modelRaised)) => resp.status = 500
            /\ resp.status = 200 => ~rejected /\ ~uncastable /\ ~modelRaised
            /\ resp.status = 200 => "prediction" \in resp.keys /\ "error" \notin resp.keys
            /\ resp.status # 200 => resp.keys = {"error"}
            /\ uncastable => call.predicted = Raised("not called")

\* C12 witness: a body with every field present and a null in one of them was
\* answered 500 with the TypeError of the cast, the model not called.
C12_Witness ==
    /\ call.op = "predict"
    /\ call.data.json = "object"
    /\ call.data.fields["ph"] = "null"
    /\ call.resp.status = 500
    /\ call.resp.keys = {"error"}
    /\ call.resp.error = <<"exception", "TypeError">>
    /\ call.resp.model_calls = <<>>

\* the body passed validation and the casts, and model.predict returned
ModelReturned ==
    /\ call.op = "predict"
    /\ call.data.json = "object"
    /\ \A f \in RequiredSet : call.data.fields[f] \in {"number", "numeric_string"}
    /\ call.predicted.exc = "None"

\* C13: once model.predict has returned for a validated request, the answer
\* is 200 with a string prediction, whatever the encoder (absent, raising,
\* not covering the index), the predicted value, and whether the model has
\* predict_proba and classes_.
C13_ResolverNeverFails ==
    ModelReturned =>
        /\ call.resp.status = 200
        /\ "prediction" \in call.resp.keys
        /\ "error" \notin call.resp.keys
        /\ IsText(call.resp.prediction)
        /\ Len(call.resp.prediction) > 0

\* C13 witness: with an encoder whose inverse_transform raises and a model of
\* encoded classes, a prediction of -1 was answered 200 with the text '-1'
\* and a ranking.
C13_Witness ==
    /\ ModelReturned
    /\ label_encoder.kind = "broken"
    /\ model.predict_proba /\ model.has_classes /\ model.classes_ = IntClasses(2)
    /\ call.predicted = Returned(PyInt(-1))
    /\ call.resp.status = 200
    /\ call.resp.prediction = <<45, 49>>
    /\ Len(call.resp.top_3) = 2

\* the catalog entry whose key has exactly i keys before it in str order
IsRanked(entry, i) ==
    Cardinality({ m \in 1..Len(crop_info) : StrLess(crop_info[m].key, entry.key) }) = i

\* C14: with no encoder loaded, when model.predict returns an integer i with
\* 0 <= i < |catalog|, the response's prediction is the i-th catalog key in
\* sorted order and its info is the catalog text of that key, not the
\* sentinel.
C14_EndToEndAlphabetical ==
    (/\ ModelReturned
     /\ label_encoder.kind = "None"
     /\ call.predicted.val.t = "int"
     /\ call.predicted.val.i \in 0..(Len(crop_info) - 1)) =>
        /\ call.resp.status = 200
        /\ \E n \in 1..Len(crop_info) :
              /\ IsRanked(crop_info[n], call.predicted.val.i)
              /\ call.resp.prediction = crop_info[n].key
              /\ call.resp.info = crop_info[n].info
        /\ call.resp.info # NO_INFO

\* C14 witness: the catalog file lists wheat, rice, banana, no encoder is
\* loaded and the model returned 0: the response is 'banana' with banana's
\* text.
C14_Witness ==
    /\ ModelReturned
    /\ label_encoder.kind = "None"
    /\ DictKeys(crop_info) = <<S_wheat, S_rice, S_banana>>
    /\ call.predicted = Returned(PyInt(0))
    /\ call.resp.status = 200
    /\ call.resp.prediction = S_banana
    /\ call.resp.info = CatalogText(S_banana)

\* a to_crop_name call on the input of the call the caller kept
RepeatedCall ==
    /\ call.op = "to_crop_name"
    /\ first # Idle
    /\ call.arg = first.arg

\* C15: a to_crop_name call on the same input as an earlier call has the
\* same outcome as that call, whatever calls to to_crop_name,
\* map_class_label, top_k_predictions, /predict or /health were made in
\* between; when the earlier call returned a string, the later call returns
\* that string.
C15_SameInputSameLabel ==
    RepeatedCall =>
        /\ call.ret = first.ret
        /\ first.ret.exc = "None" => call.ret.val.t = "str" /\ call.ret.val.s = first.ret.val.s

\* C15 witness: with the encoder [Rice, Wheat], to_crop_name(1) gave 'Wheat',
\* other calls were answered, and to_crop_name(1) gave 'Wheat' again.
C15_Witness ==
    /\ RepeatedCall
    /\ first.others
    /\ label_encoder = LabelEncoder(<<PyStr(S_Rice), PyStr(S_Wheat)>>)
    /\ call.arg = PyInt(1)
    /\ first.ret = Returned(PyStr(S_Wheat))
    /\ call.ret = Returned(PyStr(S_Wheat))

\* C16: whatever the interleaving of the steps of concurrent /predict
\* requests, the response each request is about to send is the response the
\* handler gives to that request when it runs alone, from the request's body
\* and what the model returned for it.
C16_ConcurrentRequestsIndependent ==
    \A t \in Threads :
        threads[t].pc = "respond" =>
            threads[t].resp = predict(threads[t].data, threads[t].predicted,
                                      threads[t].proba, threads[t].argsorted)

\* C16 witness: with the catalog rice, banana and no encoder, one request
\* whose prediction was 0 is answered 'banana' while another, whose
\* prediction was 1 and which has resolved 'rice', is still building its
\* response.
C16_Witness ==
    /\ label_encoder.kind = "None"
    /\ DictKeys(crop_info) = <<S_rice, S_banana>>
    /\ threads[1].pc = "respond"
    /\ threads[1].predicted = Returned(PyInt(0))
    /\ threads[1].resp.status = 200
    /\ threads[1].resp.prediction = S_banana
    /\ threads[1].resp.info = CatalogText(S_banana)
    /\ threads[2].pc = "build"
    /\ threads[2].predicted = Returned(PyInt(1))
    /\ threads[2].label_str = S_rice

\* C17: no step of the running service (a call of to_crop_name,
\* map_class_label or top_k_predictions, a /predict or /health request, or
\* its return) changes crop_info, int_to_class, alphabetical_classes or
\* label_encoder: they keep the values they were loaded with.
C17_GlobalsAreReadOnly ==
    [][/\ crop_info' = crop_info
       /\ int_to_class' = int_to_class
       /\ alphabetical_classes' = alphabetical_classes
       /\ label_encoder' = label_encoder]_vars

\* C17 witness: after a /predict request was served from the catalog file
\* wheat, banana, rice and the encoder [Rice, Wheat], the globals are what
\* start-up computes from those files.
C17_Witness ==
    /\ Succeeded
    /\ DictKeys(crop_info) = <<S_wheat, S_banana, S_rice>>
    /\ alphabetical_classes = <<S_banana, S_rice, S_wheat>>
    /\ int_to_class = [i \in 0..2 |-> alphabetical_classes[i + 1]]
    /\ label_encoder = LabelEncoder(<<PyStr(S_Rice), PyStr(S_Wheat)>>)
    /\ "top_3" \in call.resp.keys

\* x is a scalar integer or a scalar string
IsIntOrStr(x) == IsIntInstance(x) \/ IsStrInstance(x)

\* C18: on a scalar integer or string, map_class_label and to_crop_name give
\* the same result, whatever the encoder: what a call of either returned is
\* what the other returns on the same input.
C18_MapClassLabelMatchesToCropName ==
    /\ (call.op = "map_class_label" /\ IsIntOrStr(call.arg)) =>
          /\ call.ret.exc = "None"
          /\ call.ret = to_crop_name(call.arg)
    /\ (call.op = "to_crop_name" /\ IsIntOrStr(call.arg)) =>
          /\ call.ret.exc = "None"
          /\ call.ret = map_class_label(call.arg)

\* C18 witness: with the encoder [10, 20, 30], map_class_label(2) returned
\* '30', as to_crop_name(2) does.
C18_Witness ==
    /\ call.op = "map_class_label"
    /\ call.arg = PyInt(2)
    /\ label_encoder = LabelEncoder(<<PyInt(10), PyInt(20), PyInt(30)>>)
    /\ call.ret = Returned(PyStr(<<51, 48>>))
    /\ to_crop_name(call.arg) = call.ret

\* C19: to_crop_name returns a string prediction as it is: the same
\* characters in the same case, with no lookup in the encoder or the catalog
\* mapping, also when the string is no catalog key or is the text of a class
\* index.
C19_StringReturnedUnchanged ==
    (call.op = "to_crop_name" /\ call.arg.t = "str") =>
        /\ call.ret.exc = "None"
        /\ call.ret.val.t = "str"
        /\ call.ret.val.s = call.arg.s

\* C19 witness: with three crops in the catalog and the encoder [Rice,
\* Wheat], to_crop_name('1') returned '1', not the class of index 1.
C19_Witness ==
    /\ call.op = "to_crop_name"
    /\ call.arg = PyStr(S_one)
    /\ Len(crop_info) = 3
    /\ 1 \in DOMAIN int_to_class
    /\ label_encoder = LabelEncoder(<<PyStr(S_Rice), PyStr(S_Wheat)>>)
    /\ call.ret = Returned(PyStr(S_one))

\* a list or a 1-d array: a container that has a length
IsSized(x) == x.t \in {"list", "ndarray"}

\* C20: to_crop_name takes the item out of a list or array of length 1
\* before resolving: on [x], for a scalar integer or string x, it returns
\* what it returns on x.  A list or array of another length is not
\* unwrapped: the result is its string representation.
C20_SingletonIsUnwrapped ==
    (call.op = "to_crop_name" /\ IsSized(call.arg)) =>
        /\ (Len(call.arg.items) = 1 /\ IsIntOrStr(call.arg.items[1])) =>
              /\ call.ret.exc = "None"
              /\ call.ret = to_crop_name(call.arg.items[1])
        /\ Len(call.arg.items) # 1 =>
              /\ call.ret = Returned(PyStr(PyStrOf(call.arg)))
              /\ call.ret.val.s[1] = 91
              /\ call.ret.val.s[Len(call.ret.val.s)] = 93

\* C20 witness: with the encoder [Rice, Wheat], to_crop_name(np.array([1]))
\* returned 'Wheat', as to_crop_name(1) does.
C20_Witness ==
    /\ call.op = "to_crop_name"
    /\ call.arg = PyArray(<<PyInt(1)>>)
    /\ label_encoder = LabelEncoder(<<PyStr(S_Rice), PyStr(S_Wheat)>>)
    /\ call.ret = Returned(PyStr(S_Wheat))
    /\ to_crop_name(PyInt(1)) = call.ret

\* np.argmax(probs): the lowest index of maximal probability, from 0
ArgMax(probs) ==
    CHOOSE i \in 0..(Len(probs) - 1) :
        /\ \A j \in 0..(Len(probs) - 1) : probs[j + 1] <= probs[i + 1]
        /\ \A j \in 0..(i - 1) : probs[j + 1] < probs[i + 1]

\* the model predicted the class of the lowest index of maximal probability
PredictedIsArgMax ==
    /\ ModelReturned
    /\ model.predict_proba /\ model.has_classes
    /\ Len(call.proba) = Len(model.classes_)
    /\ call.predicted.val = model.classes_[ArgMax(call.proba) + 1]

\* C21: when model.predict returns the class of the lowest index of maximal
\* probability, the prediction of the /predict response is the label of the
\* first top_3 entry, for every probability vector, ties for the maximum
\* included.
C21_PredictionIsFirstOfTop3 ==
    PredictedIsArgMax =>
        /\ call.resp.status = 200
        /\ "top_3" \in call.resp.keys
        /\ call.resp.prediction = call.resp.top_3[1].label

\* no two rows of the users table have the same username
UniqueUsernames ==
    \A a, b \in 1..Len(users) : users[a].username = users[b].username => a = b

\* caller c comes back from a call of op in this step
Returns(c, op) ==
    /\ clients[c].pc # "returned"
    /\ clients'[c].pc = "returned"
    /\ clients'[c].op = op

\* a returning add_user gave True and appended one row for the username, which
\* no row had; or gave False, left the table as it was, and a row had it
AddUserStep ==
    \A c \in Clients :
        Returns(c, "add_user") =>
            LET username == clients'[c].args[1]
                password == clients'[c].args[2]
                had      == \E n \in 1..Len(users) : users[n].username = username
            IN  IF had
                THEN clients'[c].ret = FALSE /\ users' = users
                ELSE /\ clients'[c].ret = TRUE
                     /\ Len(users') = Len(users) + 1
                     /\ SubSeq(users', 1, Len(users)) = users
                     /\ users'[Len(users')].username = username
                     /\ users'[Len(users')].password_hash = hash_password(password)

\* every row of the table is still there, unaltered, after the step
UserRowsKept ==
    /\ Len(users') >= Len(users)
    /\ \A n \in 1..Len(users) : users'[n] = users[n]

\* C22: add_user returns True and adds exactly one row when no user has the
\* username, and returns False leaving the table unchanged when one has;
\* under every interleaving of callers no two rows share a username, and no
\* row is removed or altered.
C22_AddUserKeepsUsernamesUnique ==
    /\ []UniqueUsernames
    /\ [][AddUserStep /\ UserRowsKept]_vars

\* C22 witness: asha and ravi are registered; one caller's add_user for ravi
\* returned True and the other's add_user for asha, already taken, returned
\* False.
C22_Witness ==
    /\ Len(users) = 2
    /\ users[1].username = "asha" /\ users[2].username = "ravi"
    /\ clients[1].pc = "returned" /\ clients[1].op = "add_user"
    /\ clients[1].args = <<"asha", "pw2">> /\ clients[1].ret = FALSE
    /\ clients[2].pc = "returned" /\ clients[2].op = "add_user"
    /\ clients[2].args = <<"ravi", "pw1">> /\ clients[2].ret = TRUE

\* a returning check_user gave a row exactly when a row has the username and
\* the hash of the password, that row; it left the tables alone; and when a
\* caller's add_user for the same username and password has returned True,
\* it gave that user's row
CheckUserStep ==
    \A c \in Clients :
        Returns(c, "check_user") =>
            LET username == clients'[c].args[1]
                password == clients'[c].args[2]
                ret      == clients'[c].ret
                rows     == { n \in 1..Len(users) :
                                /\ users[n].username = username
                                /\ users[n].password_hash = hash_password(password) }
            IN  /\ (ret # NoRow) <=> (rows # {})
                /\ ret # NoRow => \E n \in rows : ret = users[n]
                /\ users' = users /\ farms' = farms
                /\ \A d \in Clients :
                      (/\ clients[d].pc = "returned" /\ clients[d].op = "add_user"
                       /\ clients[d].args = <<username, password>>
                       /\ clients[d].ret = TRUE) =>
                          ret # NoRow /\ ret.username = username

\* C23: check_user returns the user's row if and only if a user with the
\* username exists and its stored password_hash is hash_password(password),
\* and None otherwise, without changing the database; so after add_user(u, p)
\* returned True, check_user(u, p) returns u's row.
C23_CheckUserMatchesStoredHash == [][CheckUserStep]_vars

\* C23 witness: one caller's add_user('asha', 'pw1') returned True, and
\* another's check_user('asha', 'pw1') returned asha's row, whose hash is not
\* the password.
C23_Witness ==
    /\ clients[1].pc = "returned" /\ clients[1].op = "add_user"
    /\ clients[1].args = <<"asha", "pw1">> /\ clients[1].ret = TRUE
    /\ clients[2].pc = "returned" /\ clients[2].op = "check_user"
    /\ clients[2].args = <<"asha", "pw1">>
    /\ clients[2].ret = [id |-> 1, username |-> "asha",
                         password_hash |-> hash_password("pw1")]
    /\ clients[2].ret.password_hash # "pw1"

\* C24: after any sequence and interleaving of update_farm_details calls,
\* two concurrent first saves for one user included, the farms table holds at
\* most one row for each user_id.
C24_OneFarmRowPerUser ==
    \A a, b \in 1..Len(farms) : farms[a].user_id = farms[b].user_id => a = b

\* the farm values of a row, or of the input of a save
FarmValues(r) == <<r.farm_name, r.location, r.soil_type>>

\* the farm rows of the users other than user_id
RowsOfOthers(table, user_id) ==
    { n \in 1..Len(table) : table[n].user_id # user_id }

\* a returning update_farm_details(u, values) leaves get_farm_details(u)
\* returning a row with those values and leaves the other users' rows alone;
\* a step in which no update_farm_details for u returns leaves
\* get_farm_details(u) as it was
UpdateFarmStep ==
    /\ \A c \in Clients :
          Returns(c, "update_farm_details") =>
              LET user_id == clients'[c].args[1]
                  input   == clients'[c].args[2]
                  read    == FetchOne(farms', "user_id", user_id)
              IN  /\ read # NoRow
                  /\ read.user_id = user_id
                  /\ FarmValues(read) = FarmValues(input)
                  /\ RowsOfOthers(farms', user_id) = RowsOfOthers(farms, user_id)
                  /\ \A n \in RowsOfOthers(farms, user_id) : farms'[n] = farms[n]
    /\ \A user_id \in FarmUsers :
          (\A c \in Clients :
              ~(Returns(c, "update_farm_details") /\ clients'[c].args[1] = user_id)) =>
                  get_farm_details(user_id)' = get_farm_details(user_id)

\* C25: after update_farm_details(u, name, location, soil) returns,
\* get_farm_details(u) returns a row with exactly those values until the next
\* update_farm_details for u, and the rows of the other users are unchanged
\* by the call.
C25_SavedFarmIsReadBack == [][UpdateFarmStep]_vars


\* C26: in every dashboard session, logged_in = False implies username = ''
\* and user_id = 0; logged_in turns True only in a Login submit whose check_user
\* returned a row, with username and user_id taken from that row; a Sign Up
\* submit leaves logged_in as it was; Logout resets the three fields.
LoggedOutIsBlank ==
    \A s \in Sessions :
        ~sessions[s].logged_in => sessions[s].username = "" /\ sessions[s].user_id = 0

SessionStep(s) ==
    LET before == sessions[s]
        after  == sessions'[s]
    IN  /\ (after.logged_in /\ ~before.logged_in) =>
              /\ after.last.op = "login"
              /\ after.last.user # NoRow
              /\ \E username \in Usernames, password \in Passwords :
                    check_user(username, password) = after.last.user
              /\ after.username = after.last.user.username
              /\ after.user_id = after.last.user.id
        /\ (after # before /\ after.last.op = "login" /\ after.last.user = NoRow) =>
              after.logged_in = before.logged_in
        /\ (after # before /\ after.last.op = "signup") =>
              after.logged_in = before.logged_in
        /\ (after # before /\ after.last.op = "logout") =>
              ~after.logged_in /\ after.username = "" /\ after.user_id = 0

C26_SessionFieldsFollowLogin ==
    []LoggedOutIsBlank /\ [][\A s \in Sessions : SessionStep(s)]_vars

C26_Witness ==
    /\ sessions[1].logged_in
    /\ sessions[1].last.op = "login"
    /\ sessions[1].username = "ravi"
    /\ sessions[1].user_id = 2
    /\ sessions[2].last.op = "logout"
    /\ sessions[2].run


\* C27: a run of the farm profile page in a session that is not logged in calls
\* neither get_farm_details nor update_farm_details; every call the page makes
\* carries the user_id of its session, and a step that changes the farms table
\* is a save of a logged-in session that touches only the rows of that user_id,
\* which is the id of the users row the session logged in with.
IsFarmRun(ss) == ss.last.op \in {"farm_view", "farm_save"}

FarmRunCalls ==
    \A s \in Sessions :
        LET ss == sessions[s]
        IN  IsFarmRun(ss) =>
              /\ ~SessionLoggedIn(ss) => ss.last.calls = <<>>
              /\ \A i \in 1..Len(ss.last.calls) : ss.last.calls[i].user_id = ss.user_id
              /\ SessionLoggedIn(ss) =>
                    FetchOne(users, "username", ss.username).id = ss.user_id

FarmWriteStep ==
    farms' # farms =>
        \E s \in Sessions :
            LET ss == sessions[s]
            IN  /\ SessionLoggedIn(ss)
                /\ sessions'[s].last.op = "farm_save"
                /\ Len(sessions'[s].last.calls) = 2
                /\ sessions'[s].last.calls[2] =
                      [fn |-> "update_farm_details", user_id |-> ss.user_id]
                /\ Len(farms') >= Len(farms)
                /\ \A i \in 1..Len(farms') :
                      IF i <= Len(farms) /\ farms[i].user_id # ss.user_id
                      THEN farms'[i] = farms[i]
                      ELSE farms'[i].user_id = ss.user_id

C27_FarmPageUsesSessionUser == []FarmRunCalls /\ [][FarmWriteStep]_vars

C27_Witness ==
    /\ SessionLoggedIn(sessions[1])
    /\ sessions[1].user_id = 2
    /\ sessions[1].last.op = "farm_save"
    /\ Len(farms) = 2
    /\ farms[2].user_id = 2
    /\ sessions[2].last.op = "farm_save"
    /\ ~SessionLoggedIn(sessions[2])
    /\ sessions[2].last.calls = <<>>


\* C28: when an analysis of show_detection_page has finished, normally or with
\* one of its calls raising, the temporary file temp_<uploaded file name> it
\* wrote no longer exists.
C28_TempFileRemovedOnEveryPath ==
    disease.analysis.pc = "finished" => temp_path(disease.analysis.name) \notin disease.files

\* C29: on the disease database page, whenever the filtered list is not empty,
\* st.session_state.page is within 1..total_pages of it, so page - 1 is a valid
\* index of the page selector's options.
C29_PageWithinTotalPages ==
    (disease.page # 0 /\ CurrentDiseases # {}) =>
        disease.page \in 1..total_pages(Cardinality(CurrentDiseases))

====
